---- MODULE Spec2Model ----
(***************************************************************************)
(* State-machine model of the codereps review tracker: the problem store,  *)
(* the spaced-repetition scheduler (SRSScheduler), and the review use      *)
(* cases of ReviewService (addProblem, recordReview, updateReviewRecord,   *)
(* archive / unarchive / delete, reset, export and import), the review     *)
(* queue (ReviewQueue), the to-do list (TodoService), and the two forms    *)
(* that call them: handleSubmit of ProblemInput and handleSaveReview of    *)
(* the problem page.  A service call is one step, except in SpecRace,      *)
(* where recordReview is split at its first await.                         *)
(*                                                                         *)
(* Dates are integers counting clock ticks; a calendar day is TicksPerDay  *)
(* ticks long, so that a Date carries a time of day which startOfDay       *)
(* removes.  Days are local calendar days: the day ShortDay, on which      *)
(* daylight saving time starts, is one tick shorter than the others.  An   *)
(* optional argument that the caller leaves out is NoDate (dates) or       *)
(* Undefined (difficulty, note, number).                                   *)
(***************************************************************************)
EXTENDS Integers, Sequences, FiniteSets, TLC

VARIABLES
    problems,   \* db.problems: a function from the stored ids to Problem records
    todoItems,  \* db.todoItems: a function from the stored ids to TodoItem records
    now,        \* the wall clock read by `new Date()`
    lastOp,     \* the service call that produced this state (history variable)
    calls       \* the recordReview calls that are between their read and their write,
                \* or past it: a function from call slots to their locals

vars == <<problems, todoItems, now, lastOp, calls>>

-----------------------------------------------------------------------------
(* Bounds of the model *)

\* Ticks in one calendar day.
TicksPerDay == 2

\* The clock reads a tick of StartClock .. StartClock + MaxAdvance.
MaxAdvance == 0

\* Spec: at most this many review records in a history.
MaxRecords == 4

\* SpecDated: at most this many review records in a history.
MaxDated == 2

\* Day 1, past midnight: day 0 lies in the past.
StartClock == TicksPerDay + 1

Ids == {1}

Names == {"Two Sum", "two sum"}

NoDate == -1

Undefined == "undefined"

\* new Date("") of a date field that the user has cleared: an Invalid Date.
InvalidDate == -2

\* new Date(0)
Epoch == 0

\* A review date picked by the user in the past: yesterday, with a time of day.
BackDates == {TicksPerDay - 1}

-----------------------------------------------------------------------------
(* The local calendar, and date-fns on it *)

\* The day on which daylight saving time starts: it lacks its last tick.
ShortDay == 100

DayLength(d) == IF d = ShortDay THEN TicksPerDay - 1 ELSE TicksPerDay

\* Local midnight of day d.
FirstTick(d) == IF d <= ShortDay THEN d * TicksPerDay ELSE d * TicksPerDay - 1

\* The calendar day a tick lies in.
DayOf(t) ==
    IF t < FirstTick(ShortDay + 1) THEN t \div TicksPerDay ELSE (t + 1) \div TicksPerDay

startOfDay(t) == FirstTick(DayOf(t))

\* The same time of day n calendar days later (the last tick of the day when
\* that day has no such time).
addDays(t, n) ==
    LET d         == DayOf(t) + n
        timeOfDay == t - startOfDay(t)
    IN  FirstTick(d) + (IF timeOfDay < DayLength(d) THEN timeOfDay ELSE DayLength(d) - 1)

isSameDay(a, b) == DayOf(a) = DayOf(b)

isBefore(a, b) == a < b

isAfter(a, b) == a > b

-----------------------------------------------------------------------------
(* domain/models/Problem *)

Difficulty == {"EASY", "MEDIUM", "HARD", "DIDNT_GET"}

createProblem(id, name, number) ==
    [ id             |-> id,
      name           |-> name,
      number         |-> number,
      reviewHistory  |-> << >>,
      nextReviewDate |-> now,
      createdAt      |-> now,
      archived       |-> FALSE ]

-----------------------------------------------------------------------------
(* domain/SRSScheduler *)

MAX_INTERVAL_DAYS == 90

AUTO_ARCHIVE_THRESHOLD == 3

\* Math.max taken for Math.min.
Min_max(a, b) == IF a >= b THEN a ELSE b

Min(a, b) == IF a <= b THEN a ELSE b

\* MEDIUM and HARD exchanged.
getBaseInterval_swapped(difficulty) ==
    CASE difficulty = "EASY"      -> MAX_INTERVAL_DAYS
      [] difficulty = "MEDIUM"    -> 3
      [] difficulty = "HARD"      -> 7
      [] difficulty = "DIDNT_GET" -> 1

getBaseInterval(difficulty) ==
    CASE difficulty = "EASY"      -> MAX_INTERVAL_DAYS
      [] difficulty = "MEDIUM"    -> 7
      [] difficulty = "HARD"      -> 3
      [] difficulty = "DIDNT_GET" -> 1

\* The third review already triples: 1x, 2x, 3x, 3x...
getMultiplier_early(reviewCount, difficulty) ==
    IF difficulty = "EASY" \/ difficulty = "DIDNT_GET" THEN 1
    ELSE IF reviewCount = 0 THEN 1
    ELSE IF reviewCount = 1 THEN 1
    ELSE IF reviewCount = 2 THEN 2
    ELSE 3

\* No exemption of EASY and DIDNT_GET.
getMultiplier_all(reviewCount, difficulty) ==
    IF reviewCount = 0 THEN 1
    ELSE IF reviewCount = 1 THEN 1
    ELSE IF reviewCount = 2 THEN 2
    ELSE IF reviewCount = 3 THEN 2
    ELSE 3

getMultiplier(reviewCount, difficulty) ==
    IF difficulty = "EASY" \/ difficulty = "DIDNT_GET" THEN 1
    ELSE IF reviewCount = 0 THEN 1
    ELSE IF reviewCount = 1 THEN 1
    ELSE IF reviewCount = 2 THEN 2
    ELSE IF reviewCount = 3 THEN 2
    ELSE 3

\* The count leaves out the review being recorded.
scheduleNextReview_priorCount(problem, difficulty) ==
    LET reviewCount  == Len(problem.reviewHistory) - 1
        baseInterval == getBaseInterval(difficulty)
        multiplier   == getMultiplier(reviewCount, difficulty)
        intervalDays == Min(baseInterval * multiplier, MAX_INTERVAL_DAYS)
    IN  startOfDay(addDays(now, intervalDays))

\* The base date is the date of the latest review record, not the clock.
scheduleNextReview_asOfReview(problem, difficulty) ==
    LET reviewCount  == Len(problem.reviewHistory)
        baseInterval == getBaseInterval(difficulty)
        multiplier   == getMultiplier(reviewCount, difficulty)
        intervalDays == Min(baseInterval * multiplier, MAX_INTERVAL_DAYS)
        asOfDate     == problem.reviewHistory[reviewCount].date
    IN  startOfDay(addDays(asOfDate, intervalDays))

\* The interval is counted from the day before the clock's.
scheduleNextReview_fromYesterday(problem, difficulty) ==
    LET reviewCount  == Len(problem.reviewHistory)
        baseInterval == getBaseInterval(difficulty)
        multiplier   == getMultiplier(reviewCount, difficulty)
        intervalDays == Min(baseInterval * multiplier, MAX_INTERVAL_DAYS)
    IN  startOfDay(addDays(now, intervalDays - 1))

\* scheduleNextReview(problem, difficulty): the count is the length of the
\* history of the problem it is handed, and the base date is the clock.
scheduleNextReview(problem, difficulty) ==
    LET reviewCount  == Len(problem.reviewHistory)
        baseInterval == getBaseInterval(difficulty)
        multiplier   == getMultiplier(reviewCount, difficulty)
        intervalDays == Min(baseInterval * multiplier, MAX_INTERVAL_DAYS)
    IN  startOfDay(addDays(now, intervalDays))

\* Counts the run of successful reviews at the end of the history: a HARD or
\* DIDNT_GET review resets the progress.
countSuccessfulReviews_streak(reviewHistory) ==
    LET Ok(i) == \/ reviewHistory[i].difficulty = "EASY"
                 \/ reviewHistory[i].difficulty = "MEDIUM"
    IN  Cardinality({ i \in 1 .. Len(reviewHistory) :
                        \A j \in i .. Len(reviewHistory) : Ok(j) })

countSuccessfulReviews(reviewHistory) ==
    Cardinality({ i \in 1 .. Len(reviewHistory) :
                    \/ reviewHistory[i].difficulty = "EASY"
                    \/ reviewHistory[i].difficulty = "MEDIUM" })

\* The threshold itself does not archive yet.
\* Only a review that succeeded archives the problem.
shouldArchive_onSuccess(problem) ==
    /\ countSuccessfulReviews(problem.reviewHistory) >= AUTO_ARCHIVE_THRESHOLD
    /\ problem.reviewHistory[Len(problem.reviewHistory)].difficulty \in {"EASY", "MEDIUM"}

shouldArchive_strict(problem) ==
    countSuccessfulReviews(problem.reviewHistory) > AUTO_ARCHIVE_THRESHOLD

shouldArchive(problem) ==
    countSuccessfulReviews(problem.reviewHistory) >= AUTO_ARCHIVE_THRESHOLD

-----------------------------------------------------------------------------
(* domain/ProblemRepository over db.problems *)

\* Names are compared as they are written.
Lower_asWritten(name) == name

\* String.toLowerCase on the names of the model.
Lower(name) ==
    CASE name = "Two Sum"   -> "two sum"
      [] name = "LRU Cache" -> "lru cache"
      [] name = "3Sum"      -> "3sum"
      [] OTHER              -> name

\* table.add(problem): insert, unless a record is stored under problem.id
save_add(store, problem) ==
    [ i \in DOMAIN store \cup {problem.id} |->
        IF i \in DOMAIN store THEN store[i] ELSE problem ]

\* table.put(problem): insert, or replace the record stored under problem.id
save(store, problem) ==
    [ i \in DOMAIN store \cup {problem.id} |->
        IF i = problem.id THEN problem ELSE store[i] ]

\* The lookup passes over archived problems.
existsByName_active(name) ==
    { i \in DOMAIN problems :
        ~problems[i].archived /\ Lower(problems[i].name) = Lower(name) }

\* where("name").equalsIgnoreCase(name): the stored problems with that name
existsByName(name) ==
    { i \in DOMAIN problems : Lower(problems[i].name) = Lower(name) }

\* table.update(id, changes) that flips the flag it finds.
setArchived_flip(store, id, flag) ==
    [ i \in DOMAIN store |->
        IF i = id THEN [store[i] EXCEPT !.archived = ~@] ELSE store[i] ]

\* table.update(id, changes): no effect when the id is not stored
setArchived(store, id, flag) ==
    [ i \in DOMAIN store |->
        IF i = id THEN [store[i] EXCEPT !.archived = flag] ELSE store[i] ]

-----------------------------------------------------------------------------
(* services/ReviewService *)

\* A call that returned (ok) or threw without a message of its own.
Op(name, id, idx, ok) ==
    [op |-> name, id |-> id, idx |-> idx, ok |-> ok, err |-> ""]

\* A call that threw new Error(message).
Threw(name, id, idx, message) ==
    [op |-> name, id |-> id, idx |-> idx, ok |-> FALSE, err |-> message]

\* A call that returned `value`.
Returned(name, id, value) ==
    [op |-> name, id |-> id, idx |-> -1, ok |-> TRUE, err |-> "", value |-> value]

\* addProblem, the new id (crypto.randomUUID) being any unused id of `ids`.
AddProblemWith(ids, name, number, reviewDate) ==
    /\ IF existsByName(name) # {}
       THEN /\ UNCHANGED problems
            /\ lastOp' = Op("addProblem", CHOOSE i \in existsByName(name) : TRUE, -1, TRUE)
       ELSE \E newId \in ids \ DOMAIN problems :
            /\ LET created == createProblem(newId, name, number)
                   problem == IF reviewDate # NoDate
                              THEN [created EXCEPT !.nextReviewDate = reviewDate]
                              ELSE created
               IN  problems' = save(problems, problem)
            /\ lastOp' = Op("addProblem", newId, -1, TRUE)
    /\ UNCHANGED <<todoItems, now, calls>>

AddProblem(name, number, reviewDate) == AddProblemWith(Ids, name, number, reviewDate)

\* An empty note is stored as a note.
ReviewRecord_emptyNote(date, difficulty, notes) ==
    [ date |-> date, difficulty |-> difficulty, notes |-> notes ]

\* The record recordReview appends: `notes` is spread in only when truthy.
ReviewRecord(date, difficulty, notes) ==
    [ date       |-> date,
      difficulty |-> difficulty,
      notes      |-> IF notes # Undefined /\ notes # "" THEN notes ELSE Undefined ]

\* A review of an id that is not stored creates the problem.
RecordReview_upsert(problemId, difficulty, reviewDate, notes) ==
    /\ LET found    == IF problemId \in DOMAIN problems THEN problems[problemId]
                       ELSE createProblem(problemId, "Two Sum", Undefined)
           review   == ReviewRecord(IF reviewDate # NoDate THEN reviewDate ELSE now,
                                    difficulty, notes)
           pushed   == [found EXCEPT !.reviewHistory = Append(@, review)]
           planned  == [pushed EXCEPT
                          !.nextReviewDate = scheduleNextReview(pushed, difficulty)]
           problem  == IF shouldArchive(planned)
                       THEN [planned EXCEPT !.archived = TRUE]
                       ELSE planned
       IN  problems' = save(problems, problem)
    /\ lastOp' = Op("recordReview", problemId, -1, TRUE)
    /\ UNCHANGED <<todoItems, now, calls>>

RecordReview(problemId, difficulty, reviewDate, notes) ==
    /\ IF problemId \notin DOMAIN problems
       THEN /\ UNCHANGED problems
            /\ lastOp' = Threw("recordReview", problemId, -1, "Problem not found")
       ELSE /\ LET found    == problems[problemId]
                   review   == ReviewRecord(IF reviewDate # NoDate THEN reviewDate ELSE now,
                                            difficulty, notes)
                   pushed   == [found EXCEPT !.reviewHistory = Append(@, review)]
                   planned  == [pushed EXCEPT
                                  !.nextReviewDate = scheduleNextReview(pushed, difficulty)]
                   problem  == IF shouldArchive(planned)
                               THEN [planned EXCEPT !.archived = TRUE]
                               ELSE planned
               IN  problems' = save(problems, problem)
            /\ lastOp' = Op("recordReview", problemId, -1, TRUE)
    /\ UNCHANGED <<todoItems, now, calls>>

\* recordReview from the problem it read to the problem it saves.
recordReviewOn(found, difficulty, reviewDate, notes) ==
    LET review   == ReviewRecord(IF reviewDate # NoDate THEN reviewDate ELSE now,
                                 difficulty, notes)
        pushed   == [found EXCEPT !.reviewHistory = Append(@, review)]
        planned  == [pushed EXCEPT
                       !.nextReviewDate = scheduleNextReview(pushed, difficulty)]
    IN  IF shouldArchive(planned)
        THEN [planned EXCEPT !.archived = TRUE]
        ELSE planned

\* The calls of recordReview that may be running at a time.
CallSlots == {1, 2}

\* recordReview up to the return of `await this.repository.findById`: the
\* call holds the problem it read, a copy of the stored record.
RecordReviewRead(call, problemId, difficulty, reviewDate, notes) ==
    /\ call \in DOMAIN calls => calls[call].saved
    /\ IF problemId \notin DOMAIN problems
       THEN /\ UNCHANGED calls
            /\ lastOp' = Threw("recordReview", problemId, -1, "Problem not found")
       ELSE /\ calls' = [ c \in DOMAIN calls \cup {call} |->
                            IF c = call
                            THEN [ problemId  |-> problemId,
                                   difficulty |-> difficulty,
                                   reviewDate |-> reviewDate,
                                   notes      |-> notes,
                                   problem    |-> problems[problemId],
                                   saved      |-> FALSE ]
                            ELSE calls[c] ]
            /\ lastOp' = Op("findById", problemId, -1, TRUE)
    /\ UNCHANGED <<problems, todoItems, now>>

\* The call reads the problem again when it saves.
RecordReviewWrite_reread(call) ==
    /\ call \in DOMAIN calls /\ ~calls[call].saved
    /\ LET c       == calls[call]
           problem == recordReviewOn(problems[c.problemId], c.difficulty, c.reviewDate, c.notes)
       IN  /\ problems' = save(problems, problem)
           /\ lastOp' = Returned("recordReview", c.problemId, problem)
    /\ calls' = [calls EXCEPT ![call].saved = TRUE]
    /\ UNCHANGED <<todoItems, now>>

\* The rest of recordReview: the problem that was read gets the record, the
\* next review date and the flag, and is put into the table.
RecordReviewWrite(call) ==
    /\ call \in DOMAIN calls /\ ~calls[call].saved
    /\ LET c       == calls[call]
           problem == recordReviewOn(c.problem, c.difficulty, c.reviewDate, c.notes)
       IN  /\ problems' = save(problems, problem)
           /\ lastOp' = Returned("recordReview", c.problemId, problem)
    /\ calls' = [calls EXCEPT ![call].saved = TRUE]
    /\ UNCHANGED <<todoItems, now>>

\* Notes are stored as they are typed.
Trim_asTyped(note) == note

\* String.trim on the notes and the names of the model.
Trim(note) ==
    CASE note = "  "        -> ""
      [] note = " dp "      -> "dp"
      [] note = " Two Sum " -> "Two Sum"
      [] OTHER              -> note

\* Every edit counts as an edit of the latest review.
IsLastReview_any(reviewIndex, reviewHistory) ==
    reviewIndex <= Len(reviewHistory) - 1

IsLastReview(reviewIndex, reviewHistory) ==
    reviewIndex = Len(reviewHistory) - 1

UpdateReviewRecord(problemId, reviewIndex, date, difficulty, note) ==
    /\ IF problemId \notin DOMAIN problems
       THEN /\ UNCHANGED problems
            /\ lastOp' = Threw("updateReviewRecord", problemId, reviewIndex,
                               "Problem not found")
       ELSE IF reviewIndex < 0 \/ reviewIndex >= Len(problems[problemId].reviewHistory)
       THEN /\ UNCHANGED problems
            /\ lastOp' = Threw("updateReviewRecord", problemId, reviewIndex,
                               "Review index out of bounds")
       ELSE /\ LET found        == problems[problemId]
                   old          == found.reviewHistory[reviewIndex + 1]
                   isLastReview == IsLastReview(reviewIndex, found.reviewHistory)
                   dated        == IF date # NoDate
                                   THEN [old EXCEPT !.date = date] ELSE old
                   graded       == IF difficulty # Undefined
                                   THEN [dated EXCEPT !.difficulty = difficulty] ELSE dated
                   review       == IF note # Undefined
                                   THEN IF Trim(note) # ""
                                        THEN [graded EXCEPT !.notes = Trim(note)]
                                        ELSE [graded EXCEPT !.notes = Undefined]
                                   ELSE graded
                   edited       == [found EXCEPT !.reviewHistory[reviewIndex + 1] = review]
                   \* scheduleNextReview takes (problem, difficulty): the third
                   \* argument of the call, review.date, is not a parameter of it.
                   problem      == IF isLastReview /\ (date # NoDate \/ difficulty # Undefined)
                                   THEN [edited EXCEPT !.nextReviewDate =
                                           scheduleNextReview(edited, review.difficulty)]
                                   ELSE edited
               IN  problems' = save(problems, problem)
            /\ lastOp' = Op("updateReviewRecord", problemId, reviewIndex, TRUE)
    /\ UNCHANGED <<todoItems, now, calls>>

ArchiveProblem(problemId) ==
    /\ problems' = setArchived(problems, problemId, TRUE)
    /\ lastOp' = Op("archiveProblem", problemId, -1, TRUE)
    /\ UNCHANGED <<todoItems, now, calls>>

UnarchiveProblem(problemId) ==
    /\ problems' = setArchived(problems, problemId, FALSE)
    /\ lastOp' = Op("unarchiveProblem", problemId, -1, TRUE)
    /\ UNCHANGED <<todoItems, now, calls>>

DeleteProblem(problemId) ==
    /\ problems' = [ i \in DOMAIN problems \ {problemId} |-> problems[i] ]
    /\ lastOp' = Op("deleteProblem", problemId, -1, TRUE)
    /\ UNCHANGED <<todoItems, now, calls>>

-----------------------------------------------------------------------------
(* domain/ReviewQueue *)

\* Collection.toArray: the records of a table in the order of their keys.
RECURSIVE toArray(_)
toArray(store) ==
    IF DOMAIN store = {} THEN << >>
    ELSE LET first == CHOOSE i \in DOMAIN store : \A j \in DOMAIN store : i <= j
         IN  <<store[first]>> \o toArray([ i \in DOMAIN store \ {first} |-> store[i] ])

\* ProblemRepository.getAll (SelectSeq is Array.prototype.filter)
getAll(includeArchived) ==
    IF includeArchived THEN toArray(problems)
    ELSE SelectSeq(toArray(problems), LAMBDA p : ~p.archived)

\* The ReviewItem of a problem.
createReviewItem(problem, today) ==
    LET dueDate   == startOfDay(problem.nextReviewDate)
        isToday   == isSameDay(dueDate, today)
        isOverdue == isBefore(dueDate, today)
    IN  [ problem     |-> problem,
          isOverdue   |-> isOverdue,
          isToday     |-> isToday,
          daysOverdue |-> IF isOverdue THEN (today - dueDate) \div TicksPerDay ELSE 0 ]

byDueDay_reversed(a, b) == startOfDay(b.problem.nextReviewDate) - startOfDay(a.problem.nextReviewDate)

\* The comparator of both lists.
byDueDay(a, b) == startOfDay(a.problem.nextReviewDate) - startOfDay(b.problem.nextReviewDate)

\* Array.prototype.sort, which is stable: an item goes behind the items that
\* do not compare greater.
RECURSIVE insertSorted(_, _)
insertSorted(item, sorted) ==
    IF sorted = << >> THEN <<item>>
    ELSE IF byDueDay(sorted[1], item) <= 0
         THEN <<sorted[1]>> \o insertSorted(item, Tail(sorted))
         ELSE <<item>> \o sorted

RECURSIVE sort(_)
sort(items) ==
    IF items = << >> THEN << >>
    ELSE insertSorted(items[Len(items)], sort(SubSeq(items, 1, Len(items) - 1)))

MapItems(seq, today) == [ i \in 1 .. Len(seq) |-> createReviewItem(seq[i], today) ]

getTodaysReviews ==
    LET today == startOfDay(now)
        due(p) == LET dueDate == startOfDay(p.nextReviewDate)
                  IN  isBefore(dueDate, today) \/ isSameDay(dueDate, today)
    IN  sort(MapItems(SelectSeq(getAll(FALSE), due), today))

getUpcomingReviews_fromToday ==
    LET today == startOfDay(now)
        later(p) == ~isBefore(startOfDay(p.nextReviewDate), today)
    IN  sort(MapItems(SelectSeq(getAll(FALSE), later), today))

getUpcomingReviews ==
    LET today == startOfDay(now)
        later(p) == isAfter(startOfDay(p.nextReviewDate), today)
    IN  sort(MapItems(SelectSeq(getAll(FALSE), later), today))

getOverdueCount == Len(SelectSeq(getTodaysReviews, LAMBDA item : item.isOverdue))

getAllReviews == getTodaysReviews \o getUpcomingReviews

-----------------------------------------------------------------------------
(* domain/models/TodoItem, domain/TodoRepository and TodoService *)

TodoIds == {1, 2}

\* A LeetCode number of the model (numbers are opaque).
Numbers == {"#1"}

\* A property that is left out of the object reads undefined; a completedAt
\* that is left out is NoDate.
createTodoItem(id, name, number, note) ==
    [ id          |-> id,
      name        |-> name,
      number      |-> number,
      note        |-> IF note # Undefined /\ note # "" THEN note ELSE Undefined,
      completed   |-> FALSE,
      createdAt   |-> now,
      completedAt |-> NoDate ]

\* The first item of that name, pending or completed.
findPendingByName_completedToo(name) ==
    SelectSeq(toArray(todoItems), LAMBDA t : Lower(t.name) = Lower(name))

\* TodoRepository.findPendingByName: the first pending item of that name
findPendingByName(name) ==
    SelectSeq(toArray(todoItems), LAMBDA t : ~t.completed /\ Lower(t.name) = Lower(name))

\* table.update(id, changes): no record, no change
markCompleteIn(store, id) ==
    [ i \in DOMAIN store |->
        IF i = id THEN [store[i] EXCEPT !.completed = TRUE, !.completedAt = now]
        ELSE store[i] ]

\* addTodoItem, the new id (crypto.randomUUID) being any unused id of `ids`.
AddTodoItemWith(ids, name, number, note) ==
    /\ \E newId \in ids \ DOMAIN todoItems :
          /\ todoItems' = save(todoItems, createTodoItem(newId, name, number, note))
          /\ lastOp' = Op("addTodoItem", newId, -1, TRUE)
    /\ UNCHANGED <<problems, now, calls>>

AddTodoItem(name, number, note) == AddTodoItemWith(TodoIds, name, number, note)

MarkComplete(id) ==
    /\ todoItems' = markCompleteIn(todoItems, id)
    /\ lastOp' = Op("markComplete", id, -1, TRUE)
    /\ UNCHANGED <<problems, now, calls>>

\* The to-do table after markCompleteByName(name), and what the call returns.
markedCompleteByName(store, name) ==
    LET todo == findPendingByName(name)
    IN  IF todo # << >> THEN markCompleteIn(store, todo[1].id) ELSE store

MarkCompleteByName(name) ==
    /\ LET todo == findPendingByName(name)
       IN  IF todo # << >>
           THEN /\ todoItems' = markCompleteIn(todoItems, todo[1].id)
                /\ lastOp' = Returned("markCompleteByName", todo[1].id, TRUE)
           ELSE /\ UNCHANGED todoItems
                /\ lastOp' = Returned("markCompleteByName", 0, FALSE)
    /\ UNCHANGED <<problems, now, calls>>

\* The flag is cleared, the timestamp stays.
MarkIncomplete_flagOnly(id) ==
    /\ todoItems' = [ i \in DOMAIN todoItems |->
                        IF i = id
                        THEN [todoItems[i] EXCEPT !.completed = FALSE]
                        ELSE todoItems[i] ]
    /\ lastOp' = Op("markIncomplete", id, -1, TRUE)
    /\ UNCHANGED <<problems, now, calls>>

MarkIncomplete(id) ==
    /\ todoItems' = [ i \in DOMAIN todoItems |->
                        IF i = id
                        THEN [todoItems[i] EXCEPT !.completed = FALSE, !.completedAt = NoDate]
                        ELSE todoItems[i] ]
    /\ lastOp' = Op("markIncomplete", id, -1, TRUE)
    /\ UNCHANGED <<problems, now, calls>>

DeleteTodoItem(id) ==
    /\ todoItems' = [ i \in DOMAIN todoItems \ {id} |-> todoItems[i] ]
    /\ lastOp' = Op("deleteTodoItem", id, -1, TRUE)
    /\ UNCHANGED <<problems, now, calls>>

\* The number 0, which is falsy (numbers are opaque).
NumberZero == "#0"

\* Each of name, number and note is Undefined when it is not to be updated.
UpdateTodoItem(id, name, number, note) ==
    /\ IF id \notin DOMAIN todoItems
       THEN /\ UNCHANGED todoItems
            /\ lastOp' = Threw("updateTodoItem", id, -1, "Todo item not found")
       ELSE /\ LET found    == todoItems[id]
                   named    == IF name # Undefined
                               THEN [found EXCEPT !.name = name] ELSE found
                   numbered == IF number # Undefined
                               THEN [named EXCEPT !.number =
                                       IF number # NumberZero THEN number ELSE Undefined]
                               ELSE named
                   todoItem == IF note # Undefined
                               THEN [numbered EXCEPT !.note =
                                       IF note # "" THEN note ELSE Undefined]
                               ELSE numbered
               IN  todoItems' = save(todoItems, todoItem)
            /\ lastOp' = Op("updateTodoItem", id, -1, TRUE)
    /\ UNCHANGED <<problems, now, calls>>

-----------------------------------------------------------------------------
(* components/ProblemInput *)

\* No problem is selected.
NoProblem == 0

\* The to-do item is ticked off before the review is recorded.
HandleSubmit_completeFirst(ids, selectedProblem, problemName, difficulty, reviewDate, reviewNotes) ==
    /\ IF Trim(problemName) = ""
       THEN /\ UNCHANGED <<problems, todoItems>>
            /\ lastOp' = Op("handleSubmit", NoProblem, -1, TRUE)
       ELSE IF selectedProblem # NoProblem
       THEN /\ todoItems' = markedCompleteByName(todoItems, Trim(problemName))
            /\ IF selectedProblem \notin DOMAIN problems
               THEN /\ UNCHANGED problems
                    /\ lastOp' = Threw("handleSubmit", selectedProblem, -1, "Problem not found")
               ELSE /\ problems' = save(problems,
                                        recordReviewOn(problems[selectedProblem], difficulty,
                                                       reviewDate, Trim(reviewNotes)))
                    /\ lastOp' = Returned("handleSubmit", selectedProblem, Trim(problemName))
       ELSE /\ IF existsByName(Trim(problemName)) # {}
               THEN LET id == CHOOSE i \in existsByName(Trim(problemName)) : TRUE
                    IN  /\ problems' = save(problems,
                                            recordReviewOn(problems[id], difficulty,
                                                           reviewDate, Trim(reviewNotes)))
                        /\ lastOp' = Returned("handleSubmit", id, Trim(problemName))
               ELSE \E newId \in ids \ DOMAIN problems :
                    LET created == createProblem(newId, Trim(problemName), Undefined)
                        problem == [created EXCEPT !.nextReviewDate = reviewDate]
                    IN  /\ problems' = save(problems,
                                            recordReviewOn(problem, difficulty,
                                                           reviewDate, Trim(reviewNotes)))
                        /\ lastOp' = Returned("handleSubmit", newId, Trim(problemName))
            /\ todoItems' = markedCompleteByName(todoItems, Trim(problemName))
    /\ UNCHANGED <<now, calls>>

\* handleSubmit(difficulty) on the state of the form: the problem picked from
\* the suggestions (or none), the name, the date and the notes typed. What
\* recordReview throws is caught and logged. A value returned is the name
\* the to-do list was searched for.
HandleSubmit(ids, selectedProblem, problemName, difficulty, reviewDate, reviewNotes) ==
    /\ IF Trim(problemName) = ""
       THEN /\ UNCHANGED <<problems, todoItems>>
            /\ lastOp' = Op("handleSubmit", NoProblem, -1, TRUE)
       ELSE IF selectedProblem # NoProblem
       THEN IF selectedProblem \notin DOMAIN problems
            THEN /\ UNCHANGED <<problems, todoItems>>
                 /\ lastOp' = Threw("handleSubmit", selectedProblem, -1, "Problem not found")
            ELSE /\ problems' = save(problems,
                                     recordReviewOn(problems[selectedProblem], difficulty,
                                                    reviewDate, Trim(reviewNotes)))
                 /\ todoItems' = markedCompleteByName(todoItems, Trim(problemName))
                 /\ lastOp' = Returned("handleSubmit", selectedProblem, Trim(problemName))
       ELSE /\ IF existsByName(Trim(problemName)) # {}
               THEN LET id == CHOOSE i \in existsByName(Trim(problemName)) : TRUE
                    IN  /\ problems' = save(problems,
                                            recordReviewOn(problems[id], difficulty,
                                                           reviewDate, Trim(reviewNotes)))
                        /\ lastOp' = Returned("handleSubmit", id, Trim(problemName))
               ELSE \E newId \in ids \ DOMAIN problems :
                    LET created == createProblem(newId, Trim(problemName), Undefined)
                        problem == [created EXCEPT !.nextReviewDate = reviewDate]
                    IN  /\ problems' = save(problems,
                                            recordReviewOn(problem, difficulty,
                                                           reviewDate, Trim(reviewNotes)))
                        /\ lastOp' = Returned("handleSubmit", newId, Trim(problemName))
            /\ todoItems' = markedCompleteByName(todoItems, Trim(problemName))
    /\ UNCHANGED <<now, calls>>

-----------------------------------------------------------------------------
(* app/problem/[id]/page: the edit form of a review record *)

\* The local time of day, in ticks, at which a day begins in UTC.
UtcMidnight == 1

\* format(date, "yyyy-MM-dd"): the local calendar day of the date.
format(date) == DayOf(date)

\* new Date("yyyy-MM-dd"): the beginning of that day in UTC.
NewDateOfDay(day) == FirstTick(day) + UtcMidnight

\* handleStartEdit: the form is filled from the record.
handleStartEdit(record) ==
    [ date       |-> format(record.date),
      difficulty |-> record.difficulty,
      note       |-> IF record.notes # Undefined THEN record.notes ELSE "" ]

\* handleSaveReview: the form is saved, all three fields of it.
HandleSaveReview(problemId, index, editState) ==
    UpdateReviewRecord(problemId, index, NewDateOfDay(editState.date),
                       editState.difficulty, editState.note)

\* Time passes.
Tick(latest) ==
    /\ now < latest
    /\ now' = now + 1
    /\ lastOp' = Op("tick", 0, -1, TRUE)
    /\ UNCHANGED <<problems, todoItems, calls>>

-----------------------------------------------------------------------------
(* Backup: ReviewService.resetDatabase, exportData and importData *)

\* JSON null
Null == <<"null", 0>>

\* Date.prototype.toJSON: the ISO string of the date, null for an Invalid Date.
toJSON(date) == IF date = InvalidDate THEN Null ELSE <<"iso", date>>

\* new Date(value) of a value read from JSON: new Date(null) is new Date(0).
NewDate(value) == IF value = Null THEN Epoch ELSE value[2]

\* A property of a JSON object: JSON.stringify leaves out a property whose
\* value is undefined.
Property(key, value) ==
    IF value = Undefined
    THEN [ k \in {} |-> value ]
    ELSE [ k \in {key} |-> value ]

\* Reading a property that the object does not have gives undefined.
Get(object, key) == IF key \in DOMAIN object THEN object[key] ELSE Undefined

reviewToJSON(r) ==
    [date |-> toJSON(r.date), difficulty |-> r.difficulty] @@ Property("notes", r.notes)

problemToJSON(p) ==
    [ id             |-> p.id,
      name           |-> p.name,
      reviewHistory  |-> [ k \in 1 .. Len(p.reviewHistory) |-> reviewToJSON(p.reviewHistory[k]) ],
      nextReviewDate |-> toJSON(p.nextReviewDate),
      createdAt      |-> toJSON(p.createdAt),
      archived       |-> p.archived ] @@ Property("number", p.number)

todoToJSON(t) ==
    [ id |-> t.id, name |-> t.name, completed |-> t.completed,
      createdAt |-> toJSON(t.createdAt) ]
      @@ Property("number", t.number) @@ Property("note", t.note)
      @@ (IF t.completedAt = NoDate THEN [ k \in {} |-> Null ]
          ELSE [ k \in {"completedAt"} |-> toJSON(t.completedAt) ])

\* ReviewService.exportData: the JSON text, as the value JSON.parse gives back
exportData ==
    [ version    |-> 2,
      exportedAt |-> toJSON(now),
      data       |-> [ problems  |-> [ k \in 1 .. Len(getAll(TRUE)) |->
                                         problemToJSON(getAll(TRUE)[k]) ],
                       todoItems |-> [ k \in 1 .. Len(toArray(todoItems)) |->
                                         todoToJSON(toArray(todoItems)[k]) ] ] ]

\* The problem importData makes of an entry of data.problems.
problemFromJSON(p) ==
    [ id             |-> p.id,
      name           |-> p.name,
      number         |-> Get(p, "number"),
      reviewHistory  |-> [ k \in 1 .. Len(p.reviewHistory) |->
                             [ date       |-> NewDate(p.reviewHistory[k].date),
                               difficulty |-> p.reviewHistory[k].difficulty,
                               notes      |-> Get(p.reviewHistory[k], "notes") ] ],
      nextReviewDate |-> NewDate(p.nextReviewDate),
      createdAt      |-> NewDate(p.createdAt),
      archived       |-> p.archived ]

\* The to-do item TodoService.importData makes of an entry of data.todoItems.
todoFromJSON(t) ==
    [ id          |-> t.id,
      name        |-> t.name,
      number      |-> Get(t, "number"),
      note        |-> Get(t, "note"),
      completed   |-> t.completed,
      createdAt   |-> NewDate(t.createdAt),
      completedAt |-> IF "completedAt" \in DOMAIN t /\ t.completedAt # Null
                      THEN NewDate(t.completedAt) ELSE NoDate ]

\* table.bulkPut(records): each record is put under its id, in turn.
RECURSIVE importMany(_, _)
importMany(store, records) ==
    IF records = << >> THEN store
    ELSE importMany(save(store, Head(records)), Tail(records))

\* The file as the earlier version of the service wrote it: version 1, problems only.
Version1(file) ==
    [ version |-> 1, exportedAt |-> file.exportedAt,
      data |-> [ problems |-> file.data.problems ] ]

\* A file without the version tag.
WithoutVersion(file) == [ exportedAt |-> file.exportedAt, data |-> file.data ]

\* A file without the problems.
WithoutProblems(file) ==
    [ version |-> 2, exportedAt |-> file.exportedAt,
      data |-> [ todoItems |-> file.data.todoItems ] ]

\* The reset of the service before it had to-do items: the problems only.
ResetDatabase_problemsOnly ==
    /\ problems' = << >>
    /\ UNCHANGED todoItems
    /\ lastOp' = Op("resetDatabase", 0, -1, TRUE)
    /\ UNCHANGED <<now, calls>>

ResetDatabase ==
    /\ problems' = << >>
    /\ todoItems' = << >>
    /\ lastOp' = Op("resetDatabase", 0, -1, TRUE)
    /\ UNCHANGED <<now, calls>>

\* exportData reads both tables and writes neither.
ExportData ==
    /\ lastOp' = Op("exportData", 0, Len(exportData.data.problems), TRUE)
    /\ UNCHANGED <<problems, todoItems, now, calls>>

\* The problems table after importData of a file that is accepted.
importedProblems(store, parsed) ==
    importMany(store, [ k \in 1 .. Len(parsed.data.problems) |->
                          problemFromJSON(parsed.data.problems[k]) ])

\* The to-do table after it: TodoService.importData, when the file has to-do items.
importedTodoItems(store, parsed) ==
    IF "todoItems" \in DOMAIN parsed.data
    THEN importMany(store, [ k \in 1 .. Len(parsed.data.todoItems) |->
                               todoFromJSON(parsed.data.todoItems[k]) ])
    ELSE store

\* The to-do items of a file are imported before the file is looked at.
ImportData_todoItemsFirst(jsonString) ==
    /\ LET parsed == jsonString
       IN  IF \/ "version" \notin DOMAIN parsed
              \/ "data" \notin DOMAIN parsed
              \/ "problems" \notin DOMAIN parsed.data
           THEN /\ UNCHANGED problems
                /\ todoItems' = IF "data" \in DOMAIN parsed
                                THEN importedTodoItems(todoItems, parsed) ELSE todoItems
                /\ lastOp' = Threw("importData", 0, -1, "Invalid export file format")
           ELSE /\ problems' = importedProblems(problems, parsed)
                /\ todoItems' = importedTodoItems(todoItems, parsed)
                /\ lastOp' = Op("importData", 0, Len(parsed.data.problems), TRUE)
    /\ UNCHANGED <<now, calls>>

ImportData(jsonString) ==
    /\ LET parsed == jsonString
       IN  IF \/ "version" \notin DOMAIN parsed
              \/ "data" \notin DOMAIN parsed
              \/ "problems" \notin DOMAIN parsed.data
           THEN /\ UNCHANGED <<problems, todoItems>>
                /\ lastOp' = Threw("importData", 0, -1, "Invalid export file format")
           ELSE /\ problems' = importedProblems(problems, parsed)
                /\ todoItems' = importedTodoItems(todoItems, parsed)
                /\ lastOp' = Op("importData", 0, Len(parsed.data.problems), TRUE)
    /\ UNCHANGED <<now, calls>>

-----------------------------------------------------------------------------
(* The calls a user can make *)

Init ==
    /\ problems = << >>
    /\ todoItems = << >>
    /\ now \in StartClock .. StartClock + MaxAdvance
    /\ lastOp = Op("init", 0, -1, TRUE)
    /\ calls = << >>

\* The history of problemId can take one more record.
Room(problemId, max) ==
    problemId \in DOMAIN problems => Len(problems[problemId].reviewHistory) < max

\* Reviews dated by the clock: the date form is left on today.
Next ==
    \/ \E name \in Names, reviewDate \in {NoDate, now} :
            AddProblem(name, Undefined, reviewDate)
    \/ \E problemId \in Ids, difficulty \in Difficulty, reviewDate \in {NoDate, now} :
            /\ Room(problemId, MaxRecords)
            /\ RecordReview(problemId, difficulty, reviewDate, Undefined)
    \/ \E problemId \in Ids, reviewIndex \in 0 .. MaxRecords,
          date \in {NoDate, now}, difficulty \in {Undefined} \cup Difficulty,
          note \in {Undefined, "  "} :
            UpdateReviewRecord(problemId, reviewIndex, date, difficulty, note)
    \/ \E problemId \in Ids : ArchiveProblem(problemId)
    \/ \E problemId \in Ids : UnarchiveProblem(problemId)
    \/ \E problemId \in Ids : DeleteProblem(problemId)

Spec == Init /\ [][Next]_vars

\* Reviews that the user may back-date, on shorter histories.
NextDated ==
    \/ \E name \in Names, reviewDate \in {NoDate} \cup BackDates :
            AddProblem(name, Undefined, reviewDate)
    \/ \E problemId \in Ids, difficulty \in Difficulty,
          reviewDate \in {NoDate} \cup BackDates :
            /\ Room(problemId, MaxDated)
            /\ RecordReview(problemId, difficulty, reviewDate, Undefined)
    \/ \E problemId \in Ids, reviewIndex \in 0 .. MaxDated,
          date \in {NoDate, now} \cup BackDates, difficulty \in {Undefined} \cup Difficulty,
          note \in {Undefined, "  "} :
            UpdateReviewRecord(problemId, reviewIndex, date, difficulty, note)
    \/ \E problemId \in Ids : ArchiveProblem(problemId)
    \/ \E problemId \in Ids : UnarchiveProblem(problemId)
    \/ \E problemId \in Ids : DeleteProblem(problemId)

SpecDated == Init /\ [][NextDated]_vars

\* The review queue over the days around the start of daylight saving time.
QueueIds == {1, 2, 3}

QueueNames == {"Two Sum", "LRU Cache", "3Sum"}

\* The clock reads a tick from the last one before the short day to the
\* midnight that ends the short day.
QueueClocks == FirstTick(ShortDay) - 1 .. FirstTick(ShortDay + 1)

\* Review dates the user picks: the day before the short day, past midnight;
\* the short day; the day after, at midnight and past it.
QueueDates ==
    {FirstTick(ShortDay - 1) + 1, FirstTick(ShortDay),
     FirstTick(ShortDay + 1), FirstTick(ShortDay + 1) + 1}

InitQueue ==
    /\ problems = << >>
    /\ todoItems = << >>
    /\ now \in QueueClocks
    /\ lastOp = Op("init", 0, -1, TRUE)
    /\ calls = << >>

NextQueue ==
    \/ \E name \in QueueNames, reviewDate \in QueueDates :
            AddProblemWith(QueueIds, name, Undefined, reviewDate)
    \/ \E problemId \in QueueIds : ArchiveProblem(problemId)
    \/ \E problemId \in QueueIds : UnarchiveProblem(problemId)
    \/ \E problemId \in QueueIds : DeleteProblem(problemId)

SpecQueue == InitQueue /\ [][NextQueue]_vars

\* Two problems with notes and dated reviews, next to a to-do item.
FrameIds == {1, 2}

FrameNames == {"Two Sum", "LRU Cache"}

\* SpecFrame: at most this many review records in the store.
MaxFrameRecords == 2

\* The review records of the store.
RecordCount ==
    LET RECURSIVE Sum(_)
        Sum(ids) == IF ids = {} THEN 0
                    ELSE LET i == CHOOSE i \in ids : TRUE
                         IN  Len(problems[i].reviewHistory) + Sum(ids \ {i})
    IN  Sum(DOMAIN problems)

\* The reviews of SpecFrame <<difficulty, reviewDate, notes>>: each grade with
\* and without a date of its own, with and without notes.
FrameReviews ==
    {<<"EASY", NoDate, Undefined>>, <<"HARD", NoDate, "dp">>}
      \cup {<<"EASY", d, "dp">> : d \in BackDates}
      \cup {<<"HARD", d, "">> : d \in BackDates}

NextFrame ==
    \/ \E name \in FrameNames : AddProblemWith(FrameIds, name, Undefined, NoDate)
    \/ \E problemId \in FrameIds, review \in FrameReviews :
            /\ problemId \in DOMAIN problems => RecordCount < MaxFrameRecords
            /\ RecordReview(problemId, review[1], review[2], review[3])
    \/ \E problemId \in FrameIds, reviewIndex \in {-1, 0, MaxFrameRecords},
          difficulty \in {Undefined, "HARD"} :
            UpdateReviewRecord(problemId, reviewIndex, NoDate, difficulty, Undefined)
    \/ \E problemId \in DOMAIN problems : DeleteProblem(problemId)
    \/ /\ todoItems = << >>
       /\ AddTodoItem("Two Sum", Undefined, Undefined)
    \/ \E id \in DOMAIN todoItems : MarkComplete(id)

SpecFrame == Init /\ [][NextFrame]_vars

\* Edits of the records of one problem, across the threshold of archiving.
\* SpecEdit: the history grows to the length at which three EASY or MEDIUM
\* reviews archive the problem.
MaxEditRecords == AUTO_ARCHIVE_THRESHOLD

EditReviews == {<<"EASY", NoDate, Undefined>>, <<"HARD", NoDate, "dp">>}

\* The edits of SpecEdit <<date, difficulty, note>>: nothing, each field
\* alone (a note to store and a blank one), and all three.
EditUpdates ==
    {<<NoDate, Undefined, Undefined>>, <<NoDate, Undefined, "  ">>,
     <<NoDate, Undefined, " dp ">>, <<NoDate, "EASY", Undefined>>,
     <<NoDate, "HARD", Undefined>>}
      \cup {<<d, Undefined, Undefined>> : d \in BackDates}
      \cup {<<d, "MEDIUM", "  ">> : d \in BackDates}

NextEdit ==
    \/ AddProblem("Two Sum", Undefined, NoDate)
    \/ \E problemId \in Ids, review \in EditReviews :
            /\ Room(problemId, MaxEditRecords)
            /\ RecordReview(problemId, review[1], review[2], review[3])
    \/ \E problemId \in Ids, reviewIndex \in 0 .. MaxEditRecords - 1,
          updates \in EditUpdates :
            UpdateReviewRecord(problemId, reviewIndex, updates[1], updates[2], updates[3])
    \/ \E problemId \in Ids : ArchiveProblem(problemId)
    \/ \E problemId \in Ids : UnarchiveProblem(problemId)

SpecEdit == Init /\ [][NextEdit]_vars

\* Backups of a store of two problems and a to-do item, restored over the
\* store as it is then.
\* SpecBackup: at most this many review records in the store.
MaxBackupRecords == 1

\* The problems of SpecBackup <<name, number>>.
BackupProblems == {<<"Two Sum", Undefined>>} \cup {<<"LRU Cache", n>> : n \in Numbers}

\* The reviews of SpecBackup <<difficulty, reviewDate, notes>>: one dated by
\* the clock, one entered with the date field cleared.
BackupReviews == {<<"EASY", NoDate, "dp">>, <<"HARD", InvalidDate, Undefined>>}

\* A file from another day: the problem and the to-do item it holds bear ids
\* that the store may hold as well.
EarlierProblem ==
    [ id |-> 1, name |-> "Two Sum", number |-> "#1",
      reviewHistory  |-> <<[date |-> Epoch + 1, difficulty |-> "MEDIUM", notes |-> "dp"]>>,
      nextReviewDate |-> startOfDay(addDays(Epoch + 1, 7)),
      createdAt |-> Epoch + 1, archived |-> TRUE ]

EarlierTodo ==
    [ id |-> 1, name |-> "LRU Cache", number |-> Undefined, note |-> Undefined,
      completed |-> TRUE, createdAt |-> Epoch, completedAt |-> Epoch + 1 ]

EarlierFile ==
    [ version    |-> 2,
      exportedAt |-> toJSON(Epoch + 1),
      data       |-> [ problems  |-> <<problemToJSON(EarlierProblem)>>,
                       todoItems |-> <<todoToJSON(EarlierTodo)>> ] ]

\* What the user may select for import: the file exportData writes now, an
\* earlier file, and each of them as version 1, without its version tag and
\* without its problems.
ImportFiles ==
    LET files == {exportData, EarlierFile}
    IN  files \cup { Version1(file) : file \in files }
              \cup { WithoutVersion(file) : file \in files }
              \cup { WithoutProblems(file) : file \in files }

NextBackup ==
    \/ \E problem \in BackupProblems :
            AddProblemWith(FrameIds, problem[1], problem[2], NoDate)
    \/ \E problemId \in DOMAIN problems, review \in BackupReviews :
            /\ RecordCount < MaxBackupRecords
            /\ RecordReview(problemId, review[1], review[2], review[3])
    \/ \E problemId \in DOMAIN problems : ArchiveProblem(problemId)
    \/ \E problemId \in DOMAIN problems : DeleteProblem(problemId)
    \/ /\ todoItems = << >>
       /\ \E number \in Numbers : AddTodoItem("3Sum", number, "later")
    \/ \E id \in DOMAIN todoItems : MarkComplete(id)
    \/ ResetDatabase
    \/ ExportData
    \/ \E jsonString \in ImportFiles : ImportData(jsonString)

SpecBackup == Init /\ [][NextBackup]_vars

\* Problems added under names that differ in case only, with and without a
\* number and a review date.
NamesOfProblems == {"Two Sum", "two sum", "LRU Cache"}

NextNames ==
    \/ \E name \in NamesOfProblems, number \in {Undefined} \cup Numbers,
          reviewDate \in {NoDate} \cup BackDates :
            AddProblemWith(FrameIds, name, number, reviewDate)
    \/ \E problemId \in FrameIds : ArchiveProblem(problemId)
    \/ \E problemId \in FrameIds : UnarchiveProblem(problemId)
    \/ \E problemId \in FrameIds : DeleteProblem(problemId)

SpecNames == Init /\ [][NextNames]_vars

\* The to-do list: items added under names that differ in case only, ticked
\* off by id and by name, edited and deleted.
TodoListIds == {1, 2, 3}

TodoListNames == {"Two Sum", "two sum", "LRU Cache"}

\* The edits of SpecTodo <<name, number, note>>: a new name, a number, a note,
\* and a number and a note that are cleared.
TodoUpdates ==
    {<<"two sum", Undefined, Undefined>>, <<Undefined, "#1", Undefined>>,
     <<Undefined, Undefined, "later">>, <<Undefined, NumberZero, "">>}

NextTodo ==
    \/ \E name \in TodoListNames : AddTodoItemWith(TodoListIds, name, Undefined, Undefined)
    \/ \E id \in TodoListIds : MarkComplete(id)
    \/ \E name \in TodoListNames : MarkCompleteByName(name)
    \/ \E id \in TodoListIds : MarkIncomplete(id)
    \/ \E id \in TodoListIds : DeleteTodoItem(id)
    \/ \E id \in TodoListIds, updates \in TodoUpdates :
            UpdateTodoItem(id, updates[1], updates[2], updates[3])

SpecTodo == Init /\ [][NextTodo]_vars

\* Reviews of one problem recorded by calls that overlap.
\* SpecRace: a call is started while the history is shorter than this.
MaxRaceRecords == 2

NextRace ==
    \/ AddProblem("Two Sum", Undefined, NoDate)
    \/ \E call \in CallSlots, problemId \in Ids, review \in EditReviews :
            /\ Room(problemId, MaxRaceRecords)
            /\ RecordReviewRead(call, problemId, review[1], review[2], review[3])
    \/ \E call \in CallSlots : RecordReviewWrite(call)

SpecRace == Init /\ [][NextRace]_vars

\* The review form next to the to-do list: names typed with blanks around
\* them, a problem picked from the suggestions that may be deleted since.
\* SpecSubmit: at most this many review records in the store.
MaxSubmitRecords == 2

\* The names typed into the form.
SubmitNames == {"  ", " Two Sum ", "LRU Cache"}

\* The reviews of the form <<difficulty, reviewDate, reviewNotes>>.
SubmitReviews ==
    {<<"EASY", d, "  ">> : d \in BackDates} \cup {<<"HARD", d, " dp ">> : d \in BackDates}

NextSubmit ==
    \/ \E selectedProblem \in {NoProblem} \cup FrameIds, problemName \in SubmitNames,
          review \in SubmitReviews :
            /\ RecordCount < MaxSubmitRecords
            /\ HandleSubmit(FrameIds, selectedProblem, problemName,
                            review[1], review[2], review[3])
    \/ \E problemId \in FrameIds, review \in SubmitReviews :
            /\ RecordCount < MaxSubmitRecords
            /\ RecordReview(problemId, review[1], review[2], Trim(review[3]))
    \/ \E problemId \in DOMAIN problems : DeleteProblem(problemId)
    \/ \E name \in {"Two Sum", "two sum"} : AddTodoItem(name, Undefined, Undefined)
    \/ \E id \in DOMAIN todoItems : MarkIncomplete(id)

SpecSubmit == Init /\ [][NextSubmit]_vars

\* Records edited on the day of the review and on later days.
\* SpecLater: the clock advances by at most this many ticks.
MaxLater == 3

\* SpecLater: at most this many review records in the history.
MaxLaterRecords == 2

NextLater ==
    \/ AddProblem("Two Sum", Undefined, NoDate)
    \/ \E problemId \in Ids, difficulty \in {"MEDIUM", "HARD"}, notes \in {Undefined, "dp"} :
            /\ Room(problemId, MaxLaterRecords)
            /\ RecordReview(problemId, difficulty, NoDate, notes)
    \/ \E problemId \in DOMAIN problems, note \in {"", "dp", "dp!"} :
         \E index \in 0 .. Len(problems[problemId].reviewHistory) - 1 :
            LET record == problems[problemId].reviewHistory[index + 1]
            IN  \/ UpdateReviewRecord(problemId, index, NoDate, Undefined, note)
                \/ UpdateReviewRecord(problemId, index, record.date, record.difficulty, note)
                \/ HandleSaveReview(problemId, index,
                                    [handleStartEdit(record) EXCEPT !.note = note])
    \/ Tick(StartClock + MaxLater)

SpecLater == Init /\ [][NextLater]_vars

\* Reviews recorded on the days around the start of daylight saving time,
\* dated by the clock and back-dated, next to the review queue.
\* SpecDue: at most this many review records in the store.
MaxDueRecords == 2

NextDue ==
    \/ \E name \in FrameNames : AddProblemWith(FrameIds, name, Undefined, NoDate)
    \/ \E problemId \in FrameIds, difficulty \in Difficulty,
          reviewDate \in {NoDate, FirstTick(ShortDay - 2)} :
            /\ RecordCount < MaxDueRecords
            /\ RecordReview(problemId, difficulty, reviewDate, Undefined)
    \/ \E problemId \in DOMAIN problems : ArchiveProblem(problemId)
    \/ \E problemId \in DOMAIN problems : UnarchiveProblem(problemId)

SpecDue == InitQueue /\ [][NextDue]_vars

\* The six calls that change the problems, on names that differ in case only.
\* SpecUnique: at most this many review records in the store.
MaxUniqueRecords == 2

NextUnique ==
    \/ \E name \in NamesOfProblems, reviewDate \in {NoDate} \cup BackDates :
            AddProblemWith(FrameIds, name, Undefined, reviewDate)
    \/ \E problemId \in FrameIds, review \in EditReviews :
            /\ RecordCount < MaxUniqueRecords
            /\ RecordReview(problemId, review[1], review[2], review[3])
    \/ \E problemId \in FrameIds, reviewIndex \in 0 .. MaxUniqueRecords - 1,
          updates \in {<<NoDate, "MEDIUM", Undefined>>, <<NoDate, Undefined, " dp ">>} :
            UpdateReviewRecord(problemId, reviewIndex, updates[1], updates[2], updates[3])
    \/ \E problemId \in FrameIds : ArchiveProblem(problemId)
    \/ \E problemId \in FrameIds : UnarchiveProblem(problemId)
    \/ \E problemId \in FrameIds : DeleteProblem(problemId)

SpecUnique == Init /\ [][NextUnique]_vars

-----------------------------------------------------------------------------
(* Vocabulary of the properties *)

\* The first tick of the calendar day of t.
DayStart(t) == (t \div TicksPerDay) * TicksPerDay

\* problem p is scheduled `days` calendar days after the clock's day.
ScheduledIn(p, days) == p.nextReviewDate = DayStart(now) + days * TicksPerDay

\* The state was produced by a successful recordReview on problem id.
Reviewed(id) == id \in DOMAIN problems /\ lastOp = Op("recordReview", id, -1, TRUE)

Latest(p) == p.reviewHistory[Len(p.reviewHistory)]

\* The base intervals and the progression as the documentation tabulates them.
BaseDays(d) ==
    CASE d = "EASY" -> 90 [] d = "MEDIUM" -> 7 [] d = "HARD" -> 3 [] d = "DIDNT_GET" -> 1

Progression(n) == IF n <= 1 THEN 1 ELSE IF n <= 3 THEN 2 ELSE 3

Capped(days) == IF days > 90 THEN 90 ELSE days

\* The number of EASY or MEDIUM records of a history, counted record by record.
RECURSIVE Successes(_)
Successes(h) ==
    IF h = << >> THEN 0
    ELSE (IF Head(h).difficulty \in {"EASY", "MEDIUM"} THEN 1 ELSE 0) + Successes(Tail(h))

\* History h with the records at positions i and i+1 exchanged.
Swapped(h, i) == [h EXCEPT ![i] = h[i + 1], ![i + 1] = h[i]]

-----------------------------------------------------------------------------
(* C1 *)

\* C1 as stated: a MEDIUM or HARD review recorded on a history of n records is
\* scheduled min(base x m(n), 90) days out, n being the length of the history
\* before the new record is appended.
C1_PriorCountMultiplier ==
    \A id \in DOMAIN problems :
        LET p == problems[id]
            n == Len(p.reviewHistory) - 1
            d == Latest(p).difficulty
        IN  Reviewed(id) /\ d \in {"MEDIUM", "HARD"}
                => ScheduledIn(p, Capped(BaseDays(d) * Progression(n)))

\* C1 (amended): a MEDIUM or HARD review recorded on a history of n records is
\* scheduled min(base x m(n+1), 90) days out: the multiplier is taken for the
\* length of the history after the new record is appended.
C1_AppendedCountMultiplier ==
    \A id \in DOMAIN problems :
        LET p == problems[id]
            n == Len(p.reviewHistory) - 1
            d == Latest(p).difficulty
        IN  Reviewed(id) /\ d \in {"MEDIUM", "HARD"}
                => ScheduledIn(p, Capped(BaseDays(d) * Progression(n + 1)))

\* The second MEDIUM review of a problem has been recorded: 14 days out.
C1_Witness ==
    \E id \in DOMAIN problems :
        /\ Reviewed(id)
        /\ Len(problems[id].reviewHistory) = 2
        /\ \A i \in 1 .. 2 : problems[id].reviewHistory[i].difficulty = "MEDIUM"
        /\ ScheduledIn(problems[id], 14)

-----------------------------------------------------------------------------
(* C2 *)

\* The interval recordReview has just applied, by the length of the history
\* as it is stored and the difficulty of the record it appended.
AppliedDays(p) ==
    LET d == Latest(p).difficulty
    IN  IF d \in {"MEDIUM", "HARD"}
        THEN Capped(BaseDays(d) * Progression(Len(p.reviewHistory)))
        ELSE BaseDays(d)

\* C2 as stated: recordReview counts the interval from the start of the day
\* of the review date it was given (the date of the appended record, which is
\* the clock when none was given).
C2_FromReviewDate ==
    \A id \in DOMAIN problems :
        LET p == problems[id]
        IN  Reviewed(id)
                => p.nextReviewDate
                     = DayStart(Latest(p).date) + AppliedDays(p) * TicksPerDay

\* C2 (amended): recordReview counts the interval from the start of the
\* clock's day, whether or not a review date was given; the review date only
\* dates the appended record.
C2_FromClock ==
    \A id \in DOMAIN problems :
        LET p == problems[id]
        IN  Reviewed(id)
                => p.nextReviewDate = DayStart(now) + AppliedDays(p) * TicksPerDay

\* A review dated yesterday has been recorded and is scheduled from today.
C2_Witness ==
    \E id \in DOMAIN problems :
        /\ Reviewed(id)
        /\ Latest(problems[id]).date \in BackDates
        /\ DayStart(Latest(problems[id]).date) # DayStart(now)
        /\ ScheduledIn(problems[id], AppliedDays(problems[id]))

-----------------------------------------------------------------------------
(* C3 *)

\* C3: the first review recorded on a problem is scheduled exactly the base
\* interval of its difficulty out: EASY 90, MEDIUM 7, HARD 3, DIDNT_GET 1 day.
C3_FirstReviewBaseInterval ==
    \A id \in DOMAIN problems :
        LET p == problems[id]
        IN  Reviewed(id) /\ Len(p.reviewHistory) = 1
                => /\ Latest(p).difficulty = "EASY"      => ScheduledIn(p, 90)
                   /\ Latest(p).difficulty = "MEDIUM"    => ScheduledIn(p, 7)
                   /\ Latest(p).difficulty = "HARD"      => ScheduledIn(p, 3)
                   /\ Latest(p).difficulty = "DIDNT_GET" => ScheduledIn(p, 1)

\* A first review, graded HARD, has been recorded.
C3_Witness ==
    \E id \in DOMAIN problems :
        /\ Reviewed(id)
        /\ Len(problems[id].reviewHistory) = 1
        /\ Latest(problems[id]).difficulty = "HARD"
        /\ ScheduledIn(problems[id], 3)

-----------------------------------------------------------------------------
(* C4 *)

-----------------------------------------------------------------------------
(* C5 *)

\* C5: an EASY review is scheduled 90 days out and a DIDNT_GET review 1 day
\* out, whatever the length of the history.
C5_NoMultiplierForEasyAndDidntGet ==
    \A id \in DOMAIN problems :
        LET p == problems[id]
        IN  Reviewed(id)
                => /\ Latest(p).difficulty = "EASY"      => ScheduledIn(p, 90)
                   /\ Latest(p).difficulty = "DIDNT_GET" => ScheduledIn(p, 1)

\* A DIDNT_GET review has been recorded as the fourth of its problem.
C5_Witness ==
    \E id \in DOMAIN problems :
        /\ Reviewed(id)
        /\ Len(problems[id].reviewHistory) = 4
        /\ Latest(problems[id]).difficulty = "DIDNT_GET"
        /\ ScheduledIn(problems[id], 1)

-----------------------------------------------------------------------------
(* C6 *)

\* C6: whenever recordReview or updateReviewRecord writes nextReviewDate, the
\* date lies between 1 and 90 days after the day it was counted from (the
\* clock's day), and from the fourth record on MEDIUM gives 21 and HARD 9 days.
C6_IntervalWithinCap ==
    [][ \A id \in DOMAIN problems' :
          LET p == problems'[id]
              written ==
                  \/ lastOp' = Op("recordReview", id, -1, TRUE)
                  \/ /\ lastOp'.op = "updateReviewRecord" /\ lastOp'.ok /\ lastOp'.id = id
                     /\ id \in DOMAIN problems
                     /\ p.nextReviewDate # problems[id].nextReviewDate
          IN  written
                => /\ \E days \in 1 .. 90 :
                        p.nextReviewDate = DayStart(now') + days * TicksPerDay
                   /\ Len(p.reviewHistory) >= 4 /\ Latest(p).difficulty = "MEDIUM"
                        => p.nextReviewDate = DayStart(now') + 21 * TicksPerDay
                   /\ Len(p.reviewHistory) >= 4 /\ Latest(p).difficulty = "HARD"
                        => p.nextReviewDate = DayStart(now') + 9 * TicksPerDay
      ]_vars

\* An edit of the latest of four records has rescheduled the problem 21 days out.
C6_Witness ==
    \E id \in DOMAIN problems :
        /\ lastOp = Op("updateReviewRecord", id, 3, TRUE)
        /\ Len(problems[id].reviewHistory) = 4
        /\ Latest(problems[id]).difficulty = "MEDIUM"
        /\ ScheduledIn(problems[id], 21)

-----------------------------------------------------------------------------
(* C7 *)

\* C7: shouldArchive holds of a stored problem exactly when its history has at
\* least 3 EASY or MEDIUM records, it does not depend on the order of the
\* records, and it is false of an empty history.
C7_ShouldArchiveIffThreeSuccesses ==
    \A id \in DOMAIN problems :
        LET p == problems[id]
            h == p.reviewHistory
        IN  /\ shouldArchive(p) <=> Successes(h) >= 3
            /\ \A i \in 1 .. Len(h) - 1 :
                   shouldArchive([p EXCEPT !.reviewHistory = Swapped(h, i)])
                     <=> shouldArchive(p)
            /\ h = << >> => ~shouldArchive(p)

\* A stored problem with three successful reviews around failed ones.
C7_Witness ==
    \E id \in DOMAIN problems :
        LET h == problems[id].reviewHistory
        IN  /\ Len(h) = 4
            /\ h[1].difficulty = "MEDIUM"
            /\ h[2].difficulty = "HARD"
            /\ h[3].difficulty = "EASY"
            /\ h[4].difficulty = "MEDIUM"
            /\ shouldArchive(problems[id])

-----------------------------------------------------------------------------
(* C8 *)

\* C8: after a successful recordReview the problem is archived exactly when it
\* was archived before or its history, the new record included, has at least
\* 3 EASY or MEDIUM records.
C8_ArchivedAfterReview ==
    [][ \A id \in DOMAIN problems' :
          lastOp' = Op("recordReview", id, -1, TRUE) /\ id \in DOMAIN problems
            => ( problems'[id].archived
                   <=> \/ problems[id].archived
                       \/ Successes(problems'[id].reviewHistory) >= 3 )
      ]_vars

\* The third successful review has been recorded and the problem is archived.
C8_Witness ==
    \E id \in DOMAIN problems :
        /\ Reviewed(id)
        /\ Successes(problems[id].reviewHistory) = 3
        /\ Latest(problems[id]).difficulty \in {"EASY", "MEDIUM"}
        /\ problems[id].archived

-----------------------------------------------------------------------------
(* C9 *)

\* C9: updateReviewRecord on an index that is not the last of the history
\* leaves nextReviewDate as it was.
C9_EarlierEditKeepsNextReviewDate ==
    [][ \A id \in DOMAIN problems' :
          /\ lastOp'.op = "updateReviewRecord" /\ lastOp'.ok /\ lastOp'.id = id
          /\ id \in DOMAIN problems
          /\ lastOp'.idx # Len(problems[id].reviewHistory) - 1
          => problems'[id].nextReviewDate = problems[id].nextReviewDate
      ]_vars

\* The first of two records has been edited: it carries a back date and a
\* grade under which the scheduler would have planned another date.
C9_Witness ==
    \E id \in DOMAIN problems :
        LET p == problems[id]
        IN  /\ lastOp = Op("updateReviewRecord", id, 0, TRUE)
            /\ Len(p.reviewHistory) = 2
            /\ p.reviewHistory[1].date \in BackDates
            /\ p.reviewHistory[1].difficulty = "DIDNT_GET"
            /\ Latest(p).difficulty = "EASY"
            /\ ScheduledIn(p, 90)

-----------------------------------------------------------------------------
(* C10 *)

\* C10 as stated: an edit of the last record of the history that changes its
\* date or its difficulty sets nextReviewDate to the start of the day of the
\* record's resulting date plus the interval of its resulting difficulty.
C10_RescheduledFromRecordDate ==
    [][ \A id \in DOMAIN problems' :
          LET p   == problems'[id]
              k   == Len(p.reviewHistory)
              old == problems[id].reviewHistory[k]
          IN  /\ lastOp' = Op("updateReviewRecord", id, k - 1, TRUE)
              /\ id \in DOMAIN problems
              /\ \/ Latest(p).date # old.date
                 \/ Latest(p).difficulty # old.difficulty
              => p.nextReviewDate
                   = DayStart(Latest(p).date) + AppliedDays(p) * TicksPerDay
      ]_vars

-----------------------------------------------------------------------------
(* The review queue *)

\* The ids of the problems of a list of review items.
ItemIds(items) == { items[i].problem.id : i \in 1 .. Len(items) }

\* The calendar day on which a review item is due.
DueDay(item) == DayOf(item.problem.nextReviewDate)

Today == DayOf(now)

\* C11: the problems due today and the upcoming problems are disjoint, list
\* no problem twice, and together are exactly the stored problems that are
\* not archived, whatever the store and the day.
C11_QueuePartitionsActiveProblems ==
    LET todays   == getTodaysReviews
        upcoming == getUpcomingReviews
    IN  /\ ItemIds(todays) \cap ItemIds(upcoming) = {}
        /\ ItemIds(todays) \cup ItemIds(upcoming)
              = { i \in DOMAIN problems : ~problems[i].archived }
        /\ Cardinality(ItemIds(todays)) = Len(todays)
        /\ Cardinality(ItemIds(upcoming)) = Len(upcoming)

\* C11: a store with a problem due before today or today, a problem due
\* later, and an archived problem.
C11_Witness ==
    /\ \E i, j \in DOMAIN problems :
          /\ ~problems[i].archived /\ ~problems[j].archived
          /\ DayOf(problems[i].nextReviewDate) <= Today
          /\ DayOf(problems[j].nextReviewDate) > Today
    /\ \E i \in DOMAIN problems : problems[i].archived
    /\ getTodaysReviews # << >> /\ getUpcomingReviews # << >>

\* Due days never decrease along the list, and items due on the same day are
\* in the order of the store (the order of their keys).
SortedByDueDay(items) ==
    \A i, j \in 1 .. Len(items) :
        i < j => /\ DueDay(items[i]) <= DueDay(items[j])
                 /\ DueDay(items[i]) = DueDay(items[j])
                        => items[i].problem.id < items[j].problem.id

\* C12: the due-today list and the upcoming list are each sorted by due day,
\* problems due on the same day keeping the order of the store, and
\* getAllReviews is the due-today list followed by the upcoming list.
C12_ListsSortedByDueDay ==
    LET todays   == getTodaysReviews
        upcoming == getUpcomingReviews
        all      == getAllReviews
    IN  /\ SortedByDueDay(todays)
        /\ SortedByDueDay(upcoming)
        /\ Len(all) = Len(todays) + Len(upcoming)
        /\ \A i \in 1 .. Len(todays) : all[i] = todays[i]
        /\ \A i \in 1 .. Len(upcoming) : all[Len(todays) + i] = upcoming[i]

\* C12: a problem is due today or before, two upcoming problems are due on
\* the same day, the first of them at the later time, and the queue is not in
\* the order of the store.
C12_Witness ==
    LET todays   == getTodaysReviews
        upcoming == getUpcomingReviews
        all      == getAllReviews
    IN  /\ Len(todays) >= 1
        /\ Len(upcoming) >= 2
        /\ DueDay(upcoming[1]) = DueDay(upcoming[2])
        /\ upcoming[1].problem.nextReviewDate > upcoming[2].problem.nextReviewDate
        /\ \E i, j \in 1 .. Len(all) : i < j /\ all[i].problem.id > all[j].problem.id

\* The flags and the count of a review item say on which day it is due.
FlagsTellDueDay(item) ==
    /\ item.isToday <=> DueDay(item) = Today
    /\ item.isOverdue <=> DueDay(item) < Today
    /\ ~(item.isToday /\ item.isOverdue)

WholeDaysOverdue(item) ==
    item.daysOverdue = IF item.isOverdue THEN Today - DueDay(item) ELSE 0

\* C13: every review item is flagged isToday exactly when it is due today and
\* isOverdue exactly when it is due before today, never both; daysOverdue is
\* the number of days from its due day to today when it is overdue (at least
\* 1) and 0 otherwise; an item of the due-today list has exactly one of the
\* flags and an item of the upcoming list has neither.
C13_ReviewItemFlagsAndDaysOverdue ==
    LET todays   == getTodaysReviews
        upcoming == getUpcomingReviews
    IN  /\ \A i \in 1 .. Len(todays) :
              /\ FlagsTellDueDay(todays[i])
              /\ WholeDaysOverdue(todays[i])
              /\ todays[i].isOverdue => todays[i].daysOverdue >= 1
              /\ todays[i].isToday # todays[i].isOverdue
        /\ \A i \in 1 .. Len(upcoming) :
              /\ FlagsTellDueDay(upcoming[i])
              /\ WholeDaysOverdue(upcoming[i])
              /\ ~upcoming[i].isToday /\ ~upcoming[i].isOverdue

\* The part of C13 about the flags alone.
C13_FlagsOnly ==
    /\ \A i \in 1 .. Len(getTodaysReviews) :
          /\ FlagsTellDueDay(getTodaysReviews[i])
          /\ getTodaysReviews[i].isToday # getTodaysReviews[i].isOverdue
    /\ \A i \in 1 .. Len(getUpcomingReviews) :
          /\ FlagsTellDueDay(getUpcomingReviews[i])
          /\ ~getUpcomingReviews[i].isToday /\ ~getUpcomingReviews[i].isOverdue
          /\ getUpcomingReviews[i].daysOverdue = 0

-----------------------------------------------------------------------------
(* The frame of the service calls *)

\* The call that made this step was made for an id that is not stored.
OnAbsentId == lastOp'.id \notin DOMAIN problems

\* The call that made this step named a record that is not in the history.
OutsideHistory ==
    /\ lastOp'.id \in DOMAIN problems
    /\ lastOp'.idx \notin 0 .. Len(problems[lastOp'.id].reviewHistory) - 1

StoresUnchanged == problems' = problems /\ todoItems' = todoItems

\* C14: recordReview for an id that is not stored fails with "Problem not
\* found"; updateReviewRecord fails when the id is not stored or the index is
\* outside 0 .. length - 1 of the history (any index when the history is
\* empty); a call that fails leaves the problems and the to-do items as they
\* were, and creates no problem.
C14_FailedCallsChangeNothing ==
    [][ /\ lastOp'.op = "recordReview" /\ OnAbsentId
            => ~lastOp'.ok /\ lastOp'.err = "Problem not found"
        /\ lastOp'.op = "updateReviewRecord" /\ (OnAbsentId \/ OutsideHistory)
            => ~lastOp'.ok
        /\ ~lastOp'.ok
            => StoresUnchanged /\ DOMAIN problems' = DOMAIN problems ]_vars

\* C14: updateReviewRecord has just failed on an index past the end of a
\* history that is not empty, in a store that also holds a to-do item.
C14_Witness ==
    /\ lastOp.op = "updateReviewRecord" /\ ~lastOp.ok
    /\ lastOp.err = "Review index out of bounds"
    /\ lastOp.id \in DOMAIN problems
    /\ problems[lastOp.id].reviewHistory # << >>
    /\ todoItems # << >>

\* The stored problems whose name is `name` up to the case of its letters.
Namesakes(name) ==
    { i \in DOMAIN problems :
        \/ problems[i].name = name
        \/ {problems[i].name, name} = {"Two Sum", "two sum"} }

\* C15: addProblem under a name that a stored problem, archived or not, bears
\* up to the case of its letters returns that stored problem and leaves the
\* store as it was, whatever number and review date are passed; under any
\* other name it stores one new problem of that name, number and date.
C15_AddProblemFindsNamesake ==
    [][ lastOp'.op = "addProblem" =>
        \A name \in NamesOfProblems, number \in {Undefined} \cup Numbers,
           reviewDate \in {NoDate} \cup BackDates :
          AddProblemWith(FrameIds, name, number, reviewDate)
            => IF Namesakes(name) # {}
               THEN /\ StoresUnchanged
                    /\ lastOp'.ok /\ lastOp'.id \in Namesakes(name)
               ELSE /\ lastOp'.ok /\ lastOp'.id \notin DOMAIN problems
                    /\ DOMAIN problems' = DOMAIN problems \cup {lastOp'.id}
                    /\ \A i \in DOMAIN problems : problems'[i] = problems[i]
                    /\ problems'[lastOp'.id].name = name
                    /\ problems'[lastOp'.id].number = number
                    /\ problems'[lastOp'.id].nextReviewDate
                          = IF reviewDate # NoDate THEN reviewDate ELSE now ]_vars

\* C15: addProblem has just returned an archived problem (a problem is never
\* archived when it is created), next to a second problem.
C15_Witness ==
    /\ lastOp.op = "addProblem"
    /\ lastOp.id \in DOMAIN problems
    /\ problems[lastOp.id].archived
    /\ Cardinality(DOMAIN problems) = 2

\* Everything of a problem but its history, its next review date and its
\* archived flag.
Identity(p) == <<p.id, p.name, p.number, p.createdAt>>

\* C16: a recordReview that succeeds appends exactly one record to the end of
\* the history of the problem: the record bears the review date passed, or
\* the reading of the clock when none is, the difficulty passed, and the
\* notes passed only if they are not empty; the earlier records keep their
\* places and contents; the id, name, number and creation date of the
\* problem, every other problem and every to-do item are unchanged.
C16_RecordReviewAppendsOneRecord ==
    [][ lastOp'.op = "recordReview" /\ lastOp'.ok =>
          \A review \in FrameReviews :
            RecordReview(lastOp'.id, review[1], review[2], review[3])
              => LET difficulty == review[1]
                     reviewDate == review[2]
                     notes      == review[3]
                     problemId  == lastOp'.id
                     before    == problems[problemId]
                     after     == problems'[problemId]
                     n         == Len(before.reviewHistory)
                     added     == after.reviewHistory[n + 1]
                 IN  /\ Len(after.reviewHistory) = n + 1
                     /\ \A k \in 1 .. n : after.reviewHistory[k] = before.reviewHistory[k]
                     /\ added.date = IF reviewDate # NoDate THEN reviewDate ELSE now
                     /\ added.difficulty = difficulty
                     /\ added.notes = IF notes = "dp" THEN "dp" ELSE Undefined
                     /\ Identity(after) = Identity(before)
                     /\ DOMAIN problems' = DOMAIN problems
                     /\ \A i \in DOMAIN problems \ {problemId} : problems'[i] = problems[i]
                     /\ todoItems' = todoItems ]_vars

\* C16: a review with notes and a date of its own has just been appended to a
\* history that held a record without notes, next to a second problem that
\* has been reviewed and a to-do item.
C16_Witness ==
    /\ lastOp.op = "recordReview" /\ lastOp.ok
    /\ lastOp.id \in DOMAIN problems
    /\ LET h == problems[lastOp.id].reviewHistory
       IN  /\ Len(h) = 2
           /\ h[1].notes = Undefined
           /\ h[2].notes = "dp"
           /\ h[2].date \in BackDates
    /\ Cardinality(DOMAIN problems) = 2
    /\ todoItems # << >>

\* The reviews of a problem that count towards archiving.
SuccessCount(p) ==
    Cardinality({ k \in 1 .. Len(p.reviewHistory) :
                    p.reviewHistory[k].difficulty \in {"EASY", "MEDIUM"} })

\* C17: an updateReviewRecord that succeeds changes, of the record it names,
\* only the fields passed (a blank note removes the notes, any other note is
\* stored trimmed); the fields not passed, every other record, the length of
\* the history and the archived flag are unchanged, also when the edit moves
\* the count of EASY or MEDIUM reviews across 3; of the rest of the problem
\* only nextReviewDate may change.
C17_UpdateChangesOnlyPassedFields ==
    [][ lastOp'.op = "updateReviewRecord" /\ lastOp'.ok =>
          \A updates \in EditUpdates :
            UpdateReviewRecord(lastOp'.id, lastOp'.idx, updates[1], updates[2], updates[3])
              => LET date       == updates[1]
                     difficulty == updates[2]
                     note       == updates[3]
                     before     == problems[lastOp'.id]
                     after      == problems'[lastOp'.id]
                     k          == lastOp'.idx + 1
                     old        == before.reviewHistory[k]
                     new        == after.reviewHistory[k]
                 IN  /\ new.date = IF date # NoDate THEN date ELSE old.date
                     /\ new.difficulty
                           = IF difficulty # Undefined THEN difficulty ELSE old.difficulty
                     /\ new.notes = CASE note = Undefined -> old.notes
                                       [] note = "  "      -> Undefined
                                       [] note = " dp "    -> "dp"
                     /\ Len(after.reviewHistory) = Len(before.reviewHistory)
                     /\ \A j \in 1 .. Len(before.reviewHistory) :
                           j # k => after.reviewHistory[j] = before.reviewHistory[j]
                     /\ after.archived = before.archived
                     /\ Identity(after) = Identity(before)
                     /\ DOMAIN problems' = DOMAIN problems
                     /\ todoItems' = todoItems ]_vars

\* C17: after an edit that set a difficulty, the problem has three EASY or
\* MEDIUM reviews and is not archived.
C17_Witness ==
    /\ lastOp.op = "updateReviewRecord" /\ lastOp.ok
    /\ lastOp.id \in DOMAIN problems
    /\ LET p == problems[lastOp.id]
       IN  /\ ~p.archived
           /\ SuccessCount(p) = 3
           /\ Len(p.reviewHistory) = 3
           /\ p.reviewHistory[lastOp.idx + 1].difficulty = "MEDIUM"

-----------------------------------------------------------------------------
(* Backup and restore *)

\* importData of the file that exportData writes of the tables as they are,
\* into those tables and into emptied tables, gives the tables as they are.
RoundTrip ==
    /\ importedProblems(problems, exportData) = problems
    /\ importedTodoItems(todoItems, exportData) = todoItems
    /\ importedProblems(<< >>, exportData) = problems
    /\ importedTodoItems(<< >>, exportData) = todoItems

\* C18: importData(exportData()), into the same store or into an emptied
\* store, reproduces the problems (archived ones included) and the to-do
\* items with equal ids, names, histories, flags and dates.
C18_RoundTripReproducesStore == RoundTrip

\* A review record bears an Invalid Date.
InvalidDateStored ==
    \E i \in DOMAIN problems : \E k \in 1 .. Len(problems[i].reviewHistory) :
        problems[i].reviewHistory[k].date = InvalidDate

\* The round trip reproduces every store without an Invalid Date.
C18_RoundTripOfValidDates == ~InvalidDateStored => RoundTrip

\* The file has no version tag or no problems.
Malformed(file) ==
    \/ "version" \notin DOMAIN file
    \/ "data" \notin DOMAIN file
    \/ "problems" \notin DOMAIN file.data

IdsIn(entries) == { entries[k].id : k \in 1 .. Len(entries) }

\* C20: an importData that succeeds stores every problem and every to-do item
\* of the file under its id, in place of the record stored under that id if
\* there is one; the records stored under ids that the file does not hold
\* are unchanged; a file without to-do items (version 1) leaves the to-do
\* items unchanged.
C20_ImportUpsertsById ==
    [][ lastOp'.op = "importData" /\ lastOp'.ok =>
          \A file \in ImportFiles :
            ImportData(file) /\ ~Malformed(file)
              => LET entries == file.data.problems
                 IN  /\ DOMAIN problems' = DOMAIN problems \cup IdsIn(entries)
                     /\ \A k \in 1 .. Len(entries) :
                           problems'[entries[k].id] = problemFromJSON(entries[k])
                     /\ \A i \in DOMAIN problems \ IdsIn(entries) :
                           problems'[i] = problems[i]
                     /\ IF "todoItems" \in DOMAIN file.data
                        THEN LET todos == file.data.todoItems
                             IN  /\ DOMAIN todoItems' = DOMAIN todoItems \cup IdsIn(todos)
                                 /\ \A k \in 1 .. Len(todos) :
                                       todoItems'[todos[k].id] = todoFromJSON(todos[k])
                                 /\ \A i \in DOMAIN todoItems \ IdsIn(todos) :
                                       todoItems'[i] = todoItems[i]
                        ELSE todoItems' = todoItems ]_vars

\* C20: after an import of a file without to-do items, the problem of the
\* earlier file is stored under its id, a second problem is stored under an
\* id that the file does not hold, and the to-do item stored under the id of
\* the earlier file's to-do item is not that item.
C20_Witness ==
    /\ lastOp.op = "importData" /\ lastOp.ok
    /\ DOMAIN problems = {1, 2}
    /\ problems[1] = EarlierProblem
    /\ 1 \in DOMAIN todoItems /\ todoItems[1] # EarlierTodo

-----------------------------------------------------------------------------
(* Archiving, unarchiving and deleting *)

\* q is p but for its archived flag, which is `flag`.
FlaggedAs(p, q, flag) ==
    /\ Identity(q) = Identity(p)
    /\ q.reviewHistory = p.reviewHistory
    /\ q.nextReviewDate = p.nextReviewDate
    /\ q.archived = flag

\* The step sets the archived flag of the problem stored under id, if there
\* is one, and does nothing else; repeated, it does nothing at all.
FlagStep(name, id, flag) ==
    /\ lastOp'.ok
    /\ DOMAIN problems' = DOMAIN problems
    /\ \A i \in DOMAIN problems :
          IF i = id THEN FlaggedAs(problems[i], problems'[i], flag)
          ELSE problems'[i] = problems[i]
    /\ id \notin DOMAIN problems => problems' = problems
    /\ id \in DOMAIN problems /\ problems[id].archived = flag => problems' = problems
    /\ lastOp.op = name /\ lastOp.id = id => problems' = problems
    /\ todoItems' = todoItems

\* C21: archiveProblem, unarchiveProblem and deleteProblem return without an
\* error on every id and create no record; archive and unarchive set the
\* archived flag of the problem stored under the id and keep its history,
\* its next review date and every other problem; delete removes the problem
\* stored under the id and keeps the others; each of them, called on an id
\* that is absent or already in the target state, or called a second time,
\* leaves the store as it is.
C21_ArchiveUnarchiveDeleteIdempotent ==
    [][ lastOp'.op \in {"archiveProblem", "unarchiveProblem", "deleteProblem"} =>
          \A id \in Ids :
            /\ ArchiveProblem(id) => FlagStep("archiveProblem", id, TRUE)
            /\ UnarchiveProblem(id) => FlagStep("unarchiveProblem", id, FALSE)
            /\ DeleteProblem(id) =>
                 /\ lastOp'.ok
                 /\ DOMAIN problems' = DOMAIN problems \ {id}
                 /\ \A i \in DOMAIN problems' : problems'[i] = problems[i]
                 /\ id \notin DOMAIN problems => problems' = problems
                 /\ lastOp.op = "deleteProblem" /\ lastOp.id = id => problems' = problems
                 /\ todoItems' = todoItems ]_vars

\* C21: unarchiveProblem has just been called on a problem that is not
\* archived and has a history and a next review date.
C21_Witness ==
    /\ lastOp.op = "unarchiveProblem"
    /\ lastOp.id \in DOMAIN problems
    /\ LET p == problems[lastOp.id]
       IN  /\ ~p.archived
           /\ Len(p.reviewHistory) = 2
           /\ SuccessCount(p) = 0
           /\ p.nextReviewDate # NoDate

-----------------------------------------------------------------------------
(* Reset *)

\* C22: when resetDatabase has returned, the problems table and the to-do
\* table are both empty, whatever they held: archived or active problems,
\* pending or completed to-do items.
C22_ResetEmptiesBothTables ==
    [][ ResetDatabase =>
          /\ lastOp'.ok
          /\ DOMAIN problems' = {}
          /\ DOMAIN todoItems' = {} ]_vars

\* C22: resetDatabase has just emptied the tables.
C22_Witness ==
    /\ lastOp.op = "resetDatabase"
    /\ DOMAIN problems = {}
    /\ DOMAIN todoItems = {}

-----------------------------------------------------------------------------
(* The to-do list *)

\* The pending to-do items whose name is `name`, ignoring case.
PendingNamesakes(name) ==
    { i \in DOMAIN todoItems :
        ~todoItems[i].completed /\ Lower(todoItems[i].name) = Lower(name) }

\* C23: markCompleteByName(name) returns true exactly when a pending to-do
\* item has that name ignoring case; it then completes exactly one such
\* item, stamping it with the clock, and leaves every other item as it is,
\* the other pending items of that name included; when no pending item has
\* the name, also when a completed one has it, it returns false and the
\* to-do items are as they were. The problems are never changed.
C23_MarkCompleteByNameCompletesOnePending ==
    [][ lastOp'.op = "markCompleteByName" =>
          \A name \in TodoListNames :
            MarkCompleteByName(name) =>
              /\ lastOp'.ok
              /\ problems' = problems
              /\ DOMAIN todoItems' = DOMAIN todoItems
              /\ IF PendingNamesakes(name) # {}
                 THEN /\ lastOp'.value = TRUE
                      /\ \E i \in PendingNamesakes(name) :
                            /\ todoItems'[i] = [todoItems[i] EXCEPT !.completed = TRUE,
                                                                    !.completedAt = now]
                            /\ \A j \in DOMAIN todoItems \ {i} : todoItems'[j] = todoItems[j]
                 ELSE /\ lastOp'.value = FALSE
                      /\ todoItems' = todoItems ]_vars

\* C23: markCompleteByName has returned true and completed one of two items
\* of a name; the other one is still pending, and a third item bears another
\* name.
C23_Witness ==
    /\ lastOp.op = "markCompleteByName" /\ lastOp.value = TRUE
    /\ DOMAIN todoItems = TodoListIds
    /\ todoItems[lastOp.id].completed
    /\ \E j \in TodoListIds \ {lastOp.id} :
          /\ ~todoItems[j].completed
          /\ todoItems[j].name # todoItems[lastOp.id].name
          /\ Lower(todoItems[j].name) = Lower(todoItems[lastOp.id].name)
    /\ \E k \in TodoListIds : todoItems[k].name = "LRU Cache"

\* C24: every stored to-do item bears a completion timestamp if and only if
\* its completed flag is set.
C24_CompletedIffCompletedAt ==
    \A i \in DOMAIN todoItems :
        todoItems[i].completed <=> todoItems[i].completedAt # NoDate

\* C24: an item that was completed has been marked incomplete again, next to
\* an item that is completed.
C24_Witness ==
    /\ lastOp.op = "markIncomplete"
    /\ lastOp.id \in DOMAIN todoItems
    /\ ~todoItems[lastOp.id].completed
    /\ todoItems[lastOp.id].note # Undefined
    /\ \E j \in DOMAIN todoItems : todoItems[j].completed

-----------------------------------------------------------------------------
(* Calls that overlap *)

\* The record that a call of recordReview appends.
RecordOf(c) ==
    ReviewRecord(IF c.reviewDate # NoDate THEN c.reviewDate ELSE now, c.difficulty, c.notes)

\* Both calls have saved, and both had read the same problem in the same
\* state: neither had saved when the other one read.
BothReadFirst(c, d) ==
    /\ c \in DOMAIN calls /\ d \in DOMAIN calls /\ c # d
    /\ calls[c].saved /\ calls[d].saved
    /\ calls[c].problemId = calls[d].problemId
    /\ calls[c].problem = calls[d].problem

\* C25: when two recordReview calls on a problem have both read it before
\* either saved, then after both have saved the history of the stored
\* problem is the history they read with exactly one record more, the
\* record of one of the two calls, and the stored problem is the one that
\* the call that saved last returned.
C25_LastWriteWins ==
    \A c, d \in CallSlots :
        BothReadFirst(c, d) =>
            LET read   == calls[c].problem
                stored == problems[calls[c].problemId]
            IN  /\ Len(stored.reviewHistory) = Len(read.reviewHistory) + 1
                /\ \/ stored.reviewHistory = Append(read.reviewHistory, RecordOf(calls[c]))
                   \/ stored.reviewHistory = Append(read.reviewHistory, RecordOf(calls[d]))
                /\ lastOp.op = "recordReview" => stored = lastOp.value

\* C25: two calls that read a problem with one review have both saved,
\* one an EASY review and one a HARD review with notes; the history has two
\* records.
C25_Witness ==
    /\ BothReadFirst(1, 2)
    /\ lastOp.op = "recordReview"
    /\ calls[1].difficulty # calls[2].difficulty
    /\ Len(calls[1].problem.reviewHistory) = 1
    /\ Len(problems[calls[1].problemId].reviewHistory) = 2

-----------------------------------------------------------------------------
(* The review form *)

\* The to-do items that the step changes.
TodoItemsChanged ==
    { i \in DOMAIN todoItems : todoItems'[i] # todoItems[i] }

\* C26: recordReview, failing or not, leaves the to-do items as they are; a
\* submit of the form whose review fails leaves the problems and the to-do
\* items as they are; a submit that succeeds has recorded the review and
\* completes one pending to-do item of the name typed (trimmed, ignoring
\* case) if there is one, and changes no other to-do item. No step adds or
\* removes a to-do item.
C26_CallerCompletesTodoAfterReview ==
    [][ lastOp'.op \in {"recordReview", "handleSubmit"} =>
          /\ DOMAIN todoItems' = DOMAIN todoItems
          /\ lastOp'.op = "recordReview" => todoItems' = todoItems
          /\ lastOp'.op = "handleSubmit" /\ ~lastOp'.ok => StoresUnchanged
          /\ lastOp'.op = "handleSubmit" /\ lastOp'.ok /\ lastOp'.id # NoProblem =>
                /\ lastOp'.id \in DOMAIN problems'
                /\ problems' # problems
                /\ TodoItemsChanged \subseteq PendingNamesakes(lastOp'.value)
                /\ Cardinality(TodoItemsChanged) =
                      IF PendingNamesakes(lastOp'.value) = {} THEN 0 ELSE 1
                /\ \A i \in TodoItemsChanged : todoItems'[i].completed ]_vars

\* C26: a submit has completed one of two pending to-do items of the name
\* typed for a problem that it has added and reviewed.
C26_Witness ==
    /\ lastOp.op = "handleSubmit" /\ lastOp.ok /\ lastOp.id # NoProblem
    /\ Len(problems[lastOp.id].reviewHistory) = 1
    /\ DOMAIN todoItems = TodoIds
    /\ \E i, j \in TodoIds :
          /\ todoItems[i].completed /\ ~todoItems[j].completed
          /\ Lower(todoItems[i].name) = Lower(lastOp.value)
          /\ Lower(todoItems[j].name) = Lower(lastOp.value)

-----------------------------------------------------------------------------
(* Edits that change the note only *)

\* The step is an updateReviewRecord of the latest record of a problem that
\* leaves the day and the difficulty of the record as they were.
LatestRecordKeepsDayAndDifficulty ==
    /\ lastOp'.op = "updateReviewRecord" /\ lastOp'.ok
    /\ LET before == problems[lastOp'.id].reviewHistory
           after  == problems'[lastOp'.id].reviewHistory
       IN  /\ lastOp'.idx = Len(before) - 1
           /\ DayOf(after[Len(after)].date) = DayOf(before[Len(before)].date)
           /\ after[Len(after)].difficulty = before[Len(before)].difficulty

\* C27: an updateReviewRecord of the latest record that changes neither the
\* date nor the difficulty of the record leaves nextReviewDate unchanged.
C27_UnchangedEditKeepsNextReviewDate ==
    [][ LatestRecordKeepsDayAndDifficulty =>
          problems'[lastOp'.id].nextReviewDate = problems[lastOp'.id].nextReviewDate ]_vars

\* An edit of the latest record that passes a note and neither a date nor a
\* difficulty keeps nextReviewDate.
C27_NoteAloneKeepsNextReviewDate ==
    [][ LatestRecordKeepsDayAndDifficulty =>
          \A problemId \in DOMAIN problems, note \in {"", "dp", "dp!"} :
            UpdateReviewRecord(problemId, lastOp'.idx, NoDate, Undefined, note)
              => problems'[problemId].nextReviewDate = problems[problemId].nextReviewDate ]_vars

-----------------------------------------------------------------------------
(* A problem just reviewed is not due *)

\* C28: right after a recordReview that succeeded, whatever review date and
\* difficulty it was passed, the next review date of the problem is the
\* beginning of a day later than the day the clock is on; the problem is not
\* in the list of today's reviews and, unless it is archived, it is in the
\* list of upcoming reviews.
C28_ReviewedProblemDueLater ==
    lastOp.op = "recordReview" /\ lastOp.ok =>
        LET p == problems[lastOp.id]
        IN  /\ DayOf(p.nextReviewDate) >= Today + 1
            /\ p.nextReviewDate = startOfDay(p.nextReviewDate)
            /\ lastOp.id \notin ItemIds(getTodaysReviews)
            /\ ~p.archived => lastOp.id \in ItemIds(getUpcomingReviews)

\* C28: a review back-dated to the day before, graded DIDNT_GET, has just
\* been recorded on the day before the short day for a problem that is not
\* archived; another problem is due today.
C28_Witness ==
    /\ lastOp.op = "recordReview" /\ lastOp.ok
    /\ Today = ShortDay - 1
    /\ LET p == problems[lastOp.id]
       IN  /\ ~p.archived
           /\ Latest(p).difficulty = "DIDNT_GET"
           /\ DayOf(Latest(p).date) < Today
           /\ DayOf(p.nextReviewDate) = ShortDay
    /\ getTodaysReviews # << >>

-----------------------------------------------------------------------------
(* Unarchived problems *)

-----------------------------------------------------------------------------
(* Names are unique *)

\* No two problems of the store have names that are equal ignoring case.
NamesUnique(store) ==
    \A i, j \in DOMAIN store :
        Lower(store[i].name) = Lower(store[j].name) => i = j

\* C30: from the empty store, every addProblem, recordReview,
\* updateReviewRecord, archiveProblem, unarchiveProblem and deleteProblem
\* leaves a store in which no two problems have names that are equal
\* ignoring case; a problem is stored under a new id only by addProblem and
\* only under a name that no stored problem, archived or not, has; no call
\* changes the name of a stored problem.
C30_NamesUniqueIgnoringCase ==
    [][ /\ NamesUnique(problems')
        /\ \A id \in DOMAIN problems' \ DOMAIN problems :
              /\ lastOp'.op = "addProblem"
              /\ \A i \in DOMAIN problems :
                    Lower(problems[i].name) # Lower(problems'[id].name)
        /\ \A id \in DOMAIN problems' \cap DOMAIN problems :
              problems'[id].name = problems[id].name ]_vars

\* C30: addProblem has returned a stored problem that is archived and has a
\* review, next to a problem of another name.
C30_Witness ==
    /\ lastOp.op = "addProblem"
    /\ DOMAIN problems = FrameIds
    /\ LET p == problems[lastOp.id]
       IN  /\ p.archived
           /\ p.name = "two sum"
           /\ p.reviewHistory # << >>
====
